---- MODULE Spec2Model ----
(***************************************************************************)
(* A model of the axfs_ramfs crate: the directory tree (DirNode), the      *)
(* filesystem root (RamFileSystem) and the path algorithm (split_path,     *)
(* lookup, create, remove, symlink, readlink, read_dir).                   *)
(*                                                                         *)
(* Strings are sequences of one-character strings, so that trimming,       *)
(* searching for '/' and ordering are computed, not assumed.  Nodes are    *)
(* numbered cells of a bounded pool; an Arc is a counted reference to a    *)
(* cell, a Weak resolves while the cell's strong count is positive.        *)
(***************************************************************************)
EXTENDS Integers, Sequences, FiniteSets, TLC

\* ------------------------------------------------------------------ bounds
\* Size of the node pool (cell 1 is the root directory).
MaxNodes == 3
\* Number of nodes of the outer namespace that can carry a mount point.
NumOuter == 2
\* Largest start index and slot count tried with read_dir.
MaxStart == 4
MaxSlots == 4
\* How many times add_node is given a node that is already in use.
MaxLinks == 1
\* Number of threads of the concurrent specification.
NumThreads == 2
\* Largest buffer given to readlink, in bytes.
MaxBuf == 5

\* ----------------------------------------------------------------- strings
SLASH == "/"
DOT == "."
Empty == << >>
DotName == <<".">>
DotDotName == <<".", ".">>
NameA == <<"a">>
NameB == <<"b">>
Names == {NameA, NameB}
\* a third name, between the two in the order of the map, for the listing
NameAB == <<"a", "b">>
ListNames == {NameA, NameAB, NameB}
\* a fixed symlink target, "/a"
TargetA == <<"/", "a">>
Targets == {Empty, TargetA}
\* a longer target, "/a/b"
TargetAB == <<"/", "a", "/", "b">>
\* the strings a generator of a dynamic symlink returns
GenValues == {Empty, TargetA, TargetAB}
\* SymlinkGenerator::Dynamic(callback): the generator field of a dynamic
\* symlink; a Static(target) generator is the target string itself
DynamicGen == <<"Dynamic">>

\* byte value of the characters used (ASCII)
Ord(c) == CASE c = "." -> 46 [] c = "/" -> 47 [] c = "a" -> 97 [] c = "b" -> 98
            [] OTHER -> 122

\* str::cmp: lexicographic order on bytes, the order of BTreeMap<String, _>
RECURSIVE StrLess(_, _)
StrLess(s, t) ==
    IF t = << >> THEN FALSE
    ELSE IF s = << >> THEN TRUE
    ELSE IF Ord(Head(s)) # Ord(Head(t)) THEN Ord(Head(s)) < Ord(Head(t))
    ELSE StrLess(Tail(s), Tail(t))

\* str::trim_start_matches('/')
RECURSIVE trim_start_matches(_)
trim_start_matches(s) ==
    IF s # << >> /\ Head(s) = SLASH THEN trim_start_matches(Tail(s)) ELSE s

\* str::find('/'): index (from 1) of the first '/', 0 when there is none
find(s) ==
    LET hits == {i \in 1..Len(s) : s[i] = SLASH}
    IN IF hits = {} THEN 0 ELSE CHOOSE i \in hits : \A j \in hits : i <= j

\* split_path: (first segment, Some(everything after the first '/') or None)
split_path(path) ==
    LET trimmed_path == trim_start_matches(path)
        n == find(trimmed_path)
    IN IF n = 0 THEN [name |-> trimmed_path, some |-> FALSE, rest |-> << >>]
       ELSE [name |-> SubSeq(trimmed_path, 1, n - 1), some |-> TRUE,
             rest |-> SubSeq(trimmed_path, n + 1, Len(trimmed_path))]

\* a faulty variant of the test on the final segment: ".." is taken for a child name
IsSpecial_nodotdot(name) == name = Empty \/ name = DotName

\* name.is_empty() || name == "." || name == ".."
IsSpecial(name) == name = Empty \/ name = DotName \/ name = DotDotName

Max(a, b) == IF a >= b THEN a ELSE b
Min(a, b) == IF a <= b THEN a ELSE b

\* ------------------------------------------------------------------- nodes
Root == 1
Nodes == 1..MaxNodes
\* an empty Weak (Weak::new()), an empty Option, an unset Once
Null == 0
\* nodes of the outer namespace: -i is the parent of mount point i
Outer == {0 - i : i \in 1..NumOuter}
\* mount points offered to mount(): 0 has no parent, i > 0 has parent -i
MountPoints == 0..NumOuter
\* VfsNodeType values passed to create (CharDevice stands for every other type)
NodeTypes == {"File", "Dir", "SymLink", "CharDevice"}

VARIABLES
    kind,       \* cell -> "Free" | "Dir" | "File" | "SymLink" | "Dead"
    alive,      \* the cells whose strong count is positive
    children,   \* DirNode.children: cell -> map from name to cell
    parent,     \* DirNode.parent: cell -> Weak (a cell, an outer node or Null)
    target,     \* SymlinkNode.generator: cell -> the string of Static(target),
                \* or DynamicGen for Dynamic(callback)
    held,       \* the cells to which callers hold an Arc of their own
    fsParent,   \* RamFileSystem.parent: the Once slot (Null while unset)
    last,       \* the last call made and what it returned
    links,      \* how many times add_node was given a node already in use
    th,         \* thread -> the call it is in: where it stands, its locals and
                \* the directory whose children.read() guard it holds (rd)
    wlock,      \* cell -> the thread that holds children.write(), or Null
    okCount,    \* history: cell -> name -> the create/add/symlink calls that
                \* returned Ok for the name since it was last absent
    winner,     \* history: cell -> name -> the node the first of them stored
    creator,    \* history: cell -> the directory whose create_node made it
    firstQ,     \* history: the parent of the mount point of the first mount
                \* call whose mount point had a parent (Null before)
    lastQ,      \* history: the parent of the mount point of the latest mount
                \* call (Null before, and when it had none)
    genv,       \* what the generators of the dynamic symlinks return now
    out         \* what the last read of a symlink reported

vars == <<kind, alive, children, parent, target, held, fsParent, last, links,
          th, wlock, okCount, winner, creator, firstQ, lastQ, genv, out>>
conc == <<th, wlock, okCount, winner>>
mnt == <<fsParent, firstQ, lastQ>>
lnk == <<genv, out>>

\* the heap as one value, so that a handler is an operator from heap to heap
Heap == [kind |-> kind, alive |-> alive, children |-> children,
         parent |-> parent, target |-> target, held |-> held]

EmptyMap == [x \in {} |-> Null]
MapPut(m, k, v) == [x \in (DOMAIN m) \cup {k} |-> IF x = k THEN v ELSE m[x]]
MapDel(m, k) == [x \in (DOMAIN m) \ {k} |-> m[x]]

\* a VfsResult: err is "Ok" or the VfsError; node is the Ok value when it is a node
Res(e, h, n) == [err |-> e, h |-> h, node |-> n]

\* Arc strong count of a cell: the owner of the root, the callers' handles and
\* one for every entry of a live directory's map that stores the cell
StrongCount(h, n) ==
    (IF n = Root THEN 1 ELSE 0) + (IF n \in h.held THEN 1 ELSE 0)
    + Cardinality({dk \in UNION {{<<d, k>> : k \in DOMAIN h.children[d]} : d \in h.alive} :
                      h.children[dk[1]][dk[2]] = n})

\* Drop for Arc: a cell whose count reaches zero is freed ("Dead": its fields
\* are gone and the cell is not used again), and with it the Arcs its map holds
RECURSIVE Collect(_)
Collect(h) ==
    LET dead == {n \in h.alive : StrongCount(h, n) = 0}
    IN IF dead = {} THEN h
       ELSE Collect([h EXCEPT !.alive = @ \ dead,
                              !.kind = [n \in Nodes |-> IF n \in dead THEN "Dead" ELSE @[n]],
                              !.parent = [n \in Nodes |-> IF n \in dead THEN Null ELSE @[n]],
                              !.target = [n \in Nodes |-> IF n \in dead THEN Empty ELSE @[n]],
                              !.children = [n \in Nodes |->
                                  IF n \in dead THEN EmptyMap ELSE @[n]]])

\* Weak::upgrade succeeds
Resolves(h, w) == w # Null /\ (w \in Outer \/ w \in h.alive)

FreeCells(h) == {n \in Nodes : h.kind[n] = "Free"}
CanAlloc(h) == FreeCells(h) # {}
\* the cell a new Arc gets
NewId(h) ==
    IF CanAlloc(h) THEN CHOOSE n \in FreeCells(h) : \A m \in FreeCells(h) : n <= m
    ELSE Null

\* Arc::new of a node of the given kind.  The pool is bounded: the actions
\* do not make a call that allocates when no cell is free.
Alloc(h, k, par, tgt) ==
    LET n == NewId(h)
    IN IF n = Null THEN h
       ELSE [h EXCEPT !.kind[n] = k, !.parent[n] = par, !.target[n] = tgt,
                      !.children[n] = EmptyMap]

\* BTreeMap::insert: the entry is written, a value it replaces is dropped
MapInsert(h, self, name, node) ==
    Collect([h EXCEPT !.alive = @ \cup {node},
                      !.children[self] = MapPut(@, name, node)])

\* Arc::new of a node followed by self.children.write().insert(name, node).
\* "NoCell" is the bound of the pool, not a result of the code: the actions
\* make no call that ends so.
InsertNew(h, k, par, tgt, self, name) ==
    IF CanAlloc(h) THEN Res("Ok", MapInsert(Alloc(h, k, par, tgt), self, name, NewId(h)), Null)
    ELSE Res("NoCell", h, Null)

\* DirNode::exist
exist(h, self, name) == name \in DOMAIN h.children[self]

\* DirNode::add_node
add_node(h, self, name, node) ==
    IF name \notin DOMAIN h.children[self]
    THEN Res("Ok", MapInsert(h, self, name, node), Null)
    ELSE Res("AlreadyExists", h, Null)

\* a faulty variant of create_node: no existence check before the insert
create_node_nocheck(h, self, name, ty) ==
    CASE ty = "File" -> InsertNew(h, "File", Null, Empty, self, name)
      [] ty = "Dir" -> InsertNew(h, "Dir", self, Empty, self, name)
      [] ty = "SymLink" -> Res("InvalidInput", h, Null)
      [] OTHER -> Res("Unsupported", h, Null)

\* a faulty variant of create_node: the type is tested after a node was inserted
create_node_insert_first(h, self, name, ty) ==
    IF exist(h, self, name) THEN Res("AlreadyExists", h, Null)
    ELSE CASE ty = "File" -> InsertNew(h, "File", Null, Empty, self, name)
           [] ty = "Dir" -> InsertNew(h, "Dir", self, Empty, self, name)
           [] ty = "SymLink" ->
                Res("InvalidInput", InsertNew(h, "File", Null, Empty, self, name).h, Null)
           [] OTHER -> Res("Unsupported", InsertNew(h, "File", Null, Empty, self, name).h, Null)

\* DirNode::create_node
create_node(h, self, name, ty) ==
    IF exist(h, self, name) THEN Res("AlreadyExists", h, Null)
    ELSE CASE ty = "File" -> InsertNew(h, "File", Null, Empty, self, name)
           [] ty = "Dir" -> InsertNew(h, "Dir", self, Empty, self, name)
           [] ty = "SymLink" -> Res("InvalidInput", h, Null)
           [] OTHER -> Res("Unsupported", h, Null)

\* DirNode::create_symlink_node
create_symlink_node(h, self, name, tgt) ==
    LET r == add_node(Alloc(h, "SymLink", Null, tgt), self, name, NewId(h))
    IN IF ~CanAlloc(h) /\ ~exist(h, self, name) THEN Res("NoCell", h, Null)
       ELSE IF r.err = "Ok" THEN r
       ELSE Res(r.err, h, Null)   \* the new node is dropped with the error

\* a faulty variant of remove_node: the emptiness of a directory is not checked
remove_node_noguard(h, self, name) ==
    IF name \notin DOMAIN h.children[self] THEN Res("NotFound", h, Null)
    ELSE Res("Ok", Collect([h EXCEPT !.children[self] = MapDel(@, name)]), Null)

\* DirNode::remove_node.  The writer lock of self is held while the reader
\* lock of the child directory is taken: when the child is self, the call
\* spins for ever ("Hang").
remove_node(h, self, name) ==
    IF name \notin DOMAIN h.children[self] THEN Res("NotFound", h, Null)
    ELSE LET node == h.children[self][name]
         IN IF h.kind[node] = "Dir" /\ node = self THEN Res("Hang", h, Null)
            ELSE IF h.kind[node] = "Dir" /\ DOMAIN h.children[node] # {}
                 THEN Res("DirectoryNotEmpty", h, Null)
            ELSE Res("Ok", Collect([h EXCEPT !.children[self] = MapDel(@, name)]), Null)

\* VfsNodeOps::parent of a DirNode: self.parent.read().upgrade()
parent_of(h, self) == IF Resolves(h, h.parent[self]) THEN h.parent[self] ELSE Null

\* a faulty variant of traverse_path: ".." is resolved like "."
traverse_path_dotdot_self(h, self, name) ==
    IF name = Empty \/ name = DotName \/ name = DotDotName
    THEN IF self \in h.alive THEN Res("Ok", h, self) ELSE Res("NotFound", h, Null)
    ELSE IF name \in DOMAIN h.children[self]
         THEN Res("Ok", h, h.children[self][name])
         ELSE Res("NotFound", h, Null)

\* a faulty variant of traverse_path: "." is looked up among the children
traverse_path_nodot(h, self, name) ==
    IF name = Empty
    THEN IF self \in h.alive THEN Res("Ok", h, self) ELSE Res("NotFound", h, Null)
    ELSE IF name = DotDotName
         THEN IF parent_of(h, self) # Null THEN Res("Ok", h, parent_of(h, self))
              ELSE Res("NotFound", h, Null)
    ELSE IF name \in DOMAIN h.children[self]
         THEN Res("Ok", h, h.children[self][name])
         ELSE Res("NotFound", h, Null)

\* DirNode::traverse_path
traverse_path(h, self, name) ==
    IF name = Empty \/ name = DotName
    THEN IF self \in h.alive THEN Res("Ok", h, self) ELSE Res("NotFound", h, Null)
    ELSE IF name = DotDotName
         THEN IF parent_of(h, self) # Null THEN Res("Ok", h, parent_of(h, self))
              ELSE Res("NotFound", h, Null)
    ELSE IF name \in DOMAIN h.children[self]
         THEN Res("Ok", h, h.children[self][name])
         ELSE Res("NotFound", h, Null)

\* What a node that is not a directory of this crate answers to a
\* directory-only call (lookup, create, remove) or to a call it does not
\* support: the defaults of the node-operation contract.
NonDirDefault(h) == Res("NotADirectory", h, Null)
\* A call forwarded to a node of the outer namespace is answered there.
OuterCall(h) == Res("Outer", h, Null)

\* DirNode::lookup (VfsNodeOps::lookup dispatched on the kind of the node)
RECURSIVE lookup(_, _, _)
lookup(h, self, path) ==
    IF self \in Outer THEN OuterCall(h)
    ELSE IF h.kind[self] # "Dir" THEN NonDirDefault(h)
    ELSE LET sp == split_path(path)
             r == traverse_path(h, self, sp.name)
         IN IF r.err # "Ok" THEN r
            ELSE IF sp.some THEN lookup(h, r.node, sp.rest)
            ELSE r

\* DirNode::create
RECURSIVE create(_, _, _, _)
create(h, self, path, ty) ==
    IF self \in Outer THEN OuterCall(h)
    ELSE IF h.kind[self] # "Dir" THEN NonDirDefault(h)
    ELSE LET sp == split_path(path)
             r == traverse_path(h, self, sp.name)
         IN IF sp.some
            THEN IF r.err # "Ok" THEN r ELSE create(h, r.node, sp.rest, ty)
            ELSE IF IsSpecial(sp.name) THEN Res("Ok", h, Null)
            ELSE create_node(h, self, sp.name, ty)

\* DirNode::remove
RECURSIVE remove(_, _, _)
remove(h, self, path) ==
    IF self \in Outer THEN OuterCall(h)
    ELSE IF h.kind[self] # "Dir" THEN NonDirDefault(h)
    ELSE LET sp == split_path(path)
             r == traverse_path(h, self, sp.name)
         IN IF sp.some
            THEN IF r.err # "Ok" THEN r ELSE remove(h, r.node, sp.rest)
            ELSE IF IsSpecial(sp.name) THEN Res("InvalidInput", h, Null)
            ELSE remove_node(h, self, sp.name)

\* DirNode::symlink
RECURSIVE symlink(_, _, _, _)
symlink(h, self, tgt, path) ==
    IF self \in Outer THEN OuterCall(h)
    ELSE IF h.kind[self] # "Dir" THEN NonDirDefault(h)
    ELSE IF tgt = Empty THEN Res("InvalidInput", h, Null)
    ELSE LET sp == split_path(path)
             r == traverse_path(h, self, sp.name)
         IN IF sp.some
            THEN IF r.err # "Ok" THEN r ELSE symlink(h, r.node, tgt, sp.rest)
            ELSE IF IsSpecial(sp.name) THEN Res("InvalidInput", h, Null)
            ELSE create_symlink_node(h, self, sp.name, tgt)

\* a faulty variant of target: the callback of a dynamic symlink is not called
symlink_target_static(h, self) == IF h.target[self] = DynamicGen THEN Empty ELSE h.target[self]

\* SymlinkNode::target: the fixed string, or what the callback returns now
symlink_target(h, self) == IF h.target[self] = DynamicGen THEN genv ELSE h.target[self]

\* a faulty variant of SymlinkNode::readlink: the length of the target is returned
symlink_readlink_full_len(h, self, buf) ==
    LET tgt == symlink_target(h, self)
        copy_len == Min(Len(buf), Len(tgt))
    IN [count |-> Len(tgt),
        buf |-> [i \in 1..Len(buf) |-> IF i <= copy_len THEN tgt[i] ELSE buf[i]]]

\* SymlinkNode::readlink: buf[..copy_len].copy_from_slice(&target[..copy_len])
symlink_readlink(h, self, buf) ==
    LET tgt == symlink_target(h, self)
        copy_len == Min(Len(buf), Len(tgt))
    IN [count |-> copy_len,
        buf |-> [i \in 1..Len(buf) |-> IF i <= copy_len THEN tgt[i] ELSE buf[i]]]

\* SymlinkNode::get_attr: type SymLink, size target.len()
symlink_get_attr(h, self) == [ty |-> "SymLink", size |-> Len(symlink_target(h, self))]

\* DirNode::readlink, ending in SymlinkNode::readlink, which ignores the path
\* it is given; the node of an Ok result is the symlink whose target is copied
RECURSIVE readlink(_, _, _)
readlink(h, self, path) ==
    IF self \in Outer THEN OuterCall(h)
    ELSE IF h.kind[self] = "SymLink" THEN Res("Ok", h, self)
    ELSE IF h.kind[self] # "Dir" THEN NonDirDefault(h)
    ELSE LET sp == split_path(path)
             r == traverse_path(h, self, sp.name)
         IN IF sp.some
            THEN IF r.err # "Ok" THEN r ELSE readlink(h, r.node, sp.rest)
            ELSE IF IsSpecial(sp.name) THEN Res("InvalidInput", h, Null)
            ELSE IF r.err # "Ok" THEN r ELSE readlink(h, r.node, Empty)

\* ----------------------------------------------------------------- listing
\* the least key of a non-empty set of names, in the order of the BTreeMap
MinKey(S) == CHOOSE k \in S : \A j \in S : j = k \/ StrLess(k, j)

\* BTreeMap::iter: the keys in ascending order
RECURSIVE SortedKeys(_)
SortedKeys(S) ==
    IF S = {} THEN << >> ELSE <<MinKey(S)>> \o SortedKeys(S \ {MinKey(S)})

\* node.get_attr().unwrap().file_type()
file_type(h, n) == h.kind[n]

\* VfsDirEntry::new(name, type)
DirEntry(name, ty) == [name |-> name, ty |-> ty]
\* what a slot of the caller's buffer holds before the call
Stale == DirEntry(<<"?">>, "Stale")

\* the loop of read_dir: slot i (from 0) is next, pos is the iterator's place
RECURSIVE read_dir_loop(_, _, _, _, _, _, _)
read_dir_loop(h, self, keys, start_idx, i, pos, dirents) ==
    IF i = Len(dirents) THEN [count |-> Len(dirents), dirents |-> dirents]
    ELSE IF i + start_idx = 0
         THEN read_dir_loop(h, self, keys, start_idx, i + 1, pos,
                            [dirents EXCEPT ![i + 1] = DirEntry(DotName, "Dir")])
    ELSE IF i + start_idx = 1
         THEN read_dir_loop(h, self, keys, start_idx, i + 1, pos,
                            [dirents EXCEPT ![i + 1] = DirEntry(DotDotName, "Dir")])
    ELSE IF pos <= Len(keys)
         THEN read_dir_loop(h, self, keys, start_idx, i + 1, pos + 1,
                            [dirents EXCEPT ![i + 1] =
                                DirEntry(keys[pos], file_type(h, h.children[self][keys[pos]]))])
    ELSE [count |-> i, dirents |-> dirents]

\* a faulty variant of read_dir: the iterator skips start_idx entries, not start_idx - 2
read_dir_skip_start(h, self, start_idx, dirents) ==
    read_dir_loop(h, self, SortedKeys(DOMAIN h.children[self]), start_idx, 0,
                  start_idx + 1, dirents)

\* DirNode::read_dir
read_dir(h, self, start_idx, dirents) ==
    read_dir_loop(h, self, SortedKeys(DOMAIN h.children[self]), start_idx, 0,
                  (Max(start_idx, 2) - 2) + 1, dirents)

\* ------------------------------------------------------------------- mount
\* mount_point.parent() for the mount points of the outer namespace
MountPointParent(mp) == IF mp = 0 THEN Null ELSE 0 - mp

\* a faulty variant of set_parent: the new parent is not stored
set_parent_ignored(h, self, p) == h

\* DirNode::set_parent
set_parent(h, self, p) == [h EXCEPT !.parent[self] = p]

\* Once::call_once: the value stored, which the closure sets only when unset
call_once(slot, v) == IF slot = Null THEN v ELSE slot

\* a faulty variant of mount: the slot is overwritten by every call
mount_overwrite(h, slot, mp) ==
    IF MountPointParent(mp) # Null
    THEN [h |-> set_parent(h, Root, MountPointParent(mp)), slot |-> MountPointParent(mp)]
    ELSE [h |-> set_parent(h, Root, Null), slot |-> slot]

\* RamFileSystem::mount
mount(h, slot, mp) ==
    IF MountPointParent(mp) # Null
    THEN [h |-> set_parent(h, Root, call_once(slot, MountPointParent(mp))),
          slot |-> call_once(slot, MountPointParent(mp))]
    ELSE [h |-> set_parent(h, Root, Null), slot |-> slot]

\* ------------------------------------------------------ dynamic symlinks
\* str::rfind('/'): index (from 1) of the last '/', 0 when there is none
rfind(s) ==
    LET hits == {i \in 1..Len(s) : s[i] = SLASH}
    IN IF hits = {} THEN 0 ELSE CHOOSE i \in hits : \A j \in hits : i >= j

\* a faulty variant of add_dynamic_symlink: the path is split at its first '/'
add_dynamic_symlink_first(h, path) ==
    LET h1 == Alloc(h, "SymLink", Null, DynamicGen)
        n == find(path)
        parent_path == SubSeq(path, 1, n - 1)
        name == SubSeq(path, n + 1, Len(path))
        pr == IF parent_path = Empty THEN Res("Ok", h1, Root) ELSE lookup(h1, Root, parent_path)
        r == add_node(h1, IF n = 0 THEN Root ELSE pr.node, IF n = 0 THEN path ELSE name, NewId(h))
    IN IF n # 0 /\ pr.err # "Ok" THEN Res(pr.err, h, Null)
       ELSE IF n # 0 /\ pr.node \in Outer THEN OuterCall(h)
       ELSE IF n # 0 /\ h.kind[pr.node] # "Dir" THEN Res("NotADirectory", h, Null)
       ELSE IF r.err = "Ok" THEN r ELSE Res(r.err, h, Null)

\* RamFileSystem::add_dynamic_symlink: the symlink is made first and dropped
\* again when the call fails; path.rsplit_once('/') gives (parent_path, name)
add_dynamic_symlink(h, path) ==
    LET h1 == Alloc(h, "SymLink", Null, DynamicGen)
        n == rfind(path)
        parent_path == SubSeq(path, 1, n - 1)
        name == SubSeq(path, n + 1, Len(path))
        pr == IF parent_path = Empty THEN Res("Ok", h1, Root) ELSE lookup(h1, Root, parent_path)
        r == add_node(h1, IF n = 0 THEN Root ELSE pr.node, IF n = 0 THEN path ELSE name, NewId(h))
    IN IF n # 0 /\ pr.err # "Ok" THEN Res(pr.err, h, Null)
       ELSE IF n # 0 /\ pr.node \in Outer THEN OuterCall(h)
       ELSE IF n # 0 /\ h.kind[pr.node] # "Dir" THEN Res("NotADirectory", h, Null)
       ELSE IF r.err = "Ok" THEN r ELSE Res(r.err, h, Null)

\* ------------------------------------------------------- the calls of Spec
\* Spec: one caller at a time, every call runs to its return.
Specials == {Empty, DotName, DotDotName}
Sep(x, y) == x \o <<SLASH>> \o y
\* the paths the caller passes
ActPaths ==
    Specials \cup Names
    \cup {Sep(NameA, y) : y \in {NameB} \cup Specials}
    \cup {Sep(NameA, Sep(DotName, NameB)), <<SLASH>> \o Sep(NameA, NameB) \o <<SLASH>>}
\* the paths the properties are evaluated on
CheckPaths ==
    Specials \cup Names
    \cup {Sep(x, y) : x \in Names, y \in Names \cup Specials}
    \cup {Sep(x, Sep(DotName, y)) : x \in Names, y \in Names}
    \cup {<<SLASH>> \o Sep(x, y) \o <<SLASH>> : x \in Names, y \in Names}
    \cup {Sep(DotDotName, x) : x \in Names \cup Specials}
    \cup {<<SLASH>> \o x : x \in Names \cup Specials}

Threads == 1..NumThreads
\* a thread between two calls; err is what its last call returned
Idle(e) ==
    [pc |-> "idle", dir |-> Null, name |-> Empty, node |-> Null, err |-> e, rd |-> Null]
\* a thread inside a call on directory d
InCall(pc, d, name, n) ==
    [pc |-> pc, dir |-> d, name |-> name, node |-> n, err |-> "Ok", rd |-> Null]

\* the directories a caller holds an Arc to
Callable == {d \in held \cup {Root} : kind[d] = "Dir"}

\* a caller whose call never returns makes no further call
Running == last.err # "Hang"

Called(op, e, n, a) == [op |-> op, err |-> e, node |-> n, arg |-> a]

\* the heap after a call on directory d (Null: on any directory); the
\* history notes which directory's create_node made a new directory
SetHeapBy(h, d) ==
    /\ kind' = h.kind
    /\ alive' = h.alive
    /\ children' = h.children
    /\ parent' = h.parent
    /\ target' = h.target
    /\ held' = h.held
    /\ creator' = [n \in Nodes |->
                     IF h.kind[n] = "Dead" THEN Null
                     ELSE IF kind[n] = "Free" /\ h.kind[n] = "Dir" THEN d
                     ELSE creator[n]]

SetHeap(h) == SetHeapBy(h, Null)

\* the bytes of a buffer before a call writes to it
Blot == "?"
Buffers == {[i \in 1..n |-> Blot] : n \in 0..MaxBuf}
\* what a read of symlink n reported: the target, the count returned, the
\* buffer after the call, the size attribute, and what the read before it
\* reported when that was a read of the same symlink
Read(n, val, count, buf, size, prev) ==
    [node |-> n, val |-> val, count |-> count, buf |-> buf, size |-> size, prev |-> prev]
NoValue == <<"None">>
NoOut == Read(Null, NoValue, 0, << >>, 0, NoValue)
PrevOf(n) == IF out.node = n THEN out.val ELSE NoValue

Init ==
    /\ kind = [n \in Nodes |-> IF n = Root THEN "Dir" ELSE "Free"]
    /\ alive = {Root}
    /\ children = [n \in Nodes |-> EmptyMap]
    /\ parent = [n \in Nodes |-> Null]
    /\ target = [n \in Nodes |-> Empty]
    /\ held = {}
    /\ fsParent = Null
    /\ last = Called("new", "Ok", Null, Null)
    /\ links = 0
    /\ th = [t \in Threads |-> Idle("Ok")]
    /\ wlock = [n \in Nodes |-> Null]
    /\ okCount = [n \in Nodes |-> [x \in Names |-> 0]]
    /\ winner = [n \in Nodes |-> [x \in Names |-> Null]]
    /\ creator = [n \in Nodes |-> Null]
    /\ firstQ = Null
    /\ lastQ = Null
    /\ genv = TargetA
    /\ out = NoOut

\* self.create(path, ty)
Create(d, path, ty) ==
    LET r == create(Heap, d, path, ty)
    IN /\ Running
       /\ r.err # "NoCell"
       /\ SetHeap(r.h)
       /\ last' = Called("create", r.err, Null, Null)
       /\ UNCHANGED <<lnk, mnt, links, conc>>

\* self.remove(path)
Remove(d, path) ==
    LET r == remove(Heap, d, path)
    IN /\ Running
       /\ SetHeap(r.h)
       /\ last' = Called("remove", r.err, Null, Null)
       /\ UNCHANGED <<lnk, mnt, links, conc>>

\* self.symlink(target, path)
Symlink(d, tgt, path) ==
    LET r == symlink(Heap, d, tgt, path)
    IN /\ Running
       /\ r.err # "NoCell"
       /\ SetHeap(r.h)
       /\ last' = Called("symlink", r.err, Null, Null)
       /\ UNCHANGED <<lnk, mnt, links, conc>>

\* self.readlink(path, buf)
Readlink(d, path) ==
    LET r == readlink(Heap, d, path)
    IN /\ Running
       /\ last' = Called("readlink", r.err, r.node, Null)
       /\ UNCHANGED <<kind, alive, children, parent, target, held, creator, lnk, mnt, links, conc>>

\* self.lookup(path); the caller keeps the Arc it gets until DropHandle, or
\* drops it at once
Lookup(d, path, keep) ==
    LET r == lookup(Heap, d, path)
    IN /\ Running
       /\ last' = Called("lookup", r.err, r.node, Null)
       /\ held' = IF keep /\ r.err = "Ok" /\ r.node \in Nodes
                  THEN held \cup {r.node} ELSE held
       /\ UNCHANGED <<kind, alive, children, parent, target, creator, lnk, mnt, links, conc>>

\* a caller drops the Arc it holds to node n
DropHandle(n) ==
    /\ Running
    /\ n \in held
    /\ SetHeap(Collect([Heap EXCEPT !.held = @ \ {n}]))
    /\ last' = Called("drop", "Ok", Null, Null)
    /\ UNCHANGED <<lnk, mnt, links, conc>>

\* self.add_node(name, node) with a node the caller holds
AddNode(d, name, n) ==
    LET r == add_node(Heap, d, name, n)
    IN /\ Running
       /\ links < MaxLinks
       /\ SetHeap(r.h)
       /\ last' = Called("add_node", r.err, Null, Null)
       /\ links' = IF r.err = "Ok" THEN links + 1 ELSE links
       /\ UNCHANGED <<lnk, mnt, conc>>

\* self.add_node(name, Arc::new(FileNode::new())) and
\* self.add_node(name, Arc::new(SymlinkNode::new_static(target)))
AddNewNode(d, name, k, tgt) ==
    LET r == add_node(Alloc(Heap, k, Null, tgt), d, name, NewId(Heap))
    IN /\ Running
       /\ CanAlloc(Heap)
       /\ SetHeap(IF r.err = "Ok" THEN r.h ELSE Heap)
       /\ last' = Called("add_node", r.err, Null, Null)
       /\ UNCHANGED <<lnk, mnt, links, conc>>

\* self.remove_node(name)
RemoveNode(d, name) ==
    LET r == remove_node(Heap, d, name)
    IN /\ Running
       /\ SetHeap(r.h)
       /\ last' = Called("remove_node", r.err, Null, Null)
       /\ UNCHANGED <<lnk, mnt, links, conc>>

\* self.read_dir(start_idx, dirents) with a buffer of k slots
ReadDir(d, start_idx, k) ==
    LET r == read_dir(Heap, d, start_idx, [i \in 1..k |-> Stale])
    IN /\ Running
       /\ last' = Called("read_dir", "Ok", r.count, Null)
       /\ UNCHANGED <<kind, alive, children, parent, target, held, creator, lnk, mnt, links, conc>>

\* fs.mount(path, mount_point)
Mount(mp) ==
    LET r == mount(Heap, fsParent, mp)
    IN /\ Running
       /\ SetHeap(r.h)
       /\ fsParent' = r.slot
       /\ firstQ' = IF firstQ = Null THEN MountPointParent(mp) ELSE firstQ
       /\ lastQ' = MountPointParent(mp)
       /\ last' = Called("mount", "Ok", Null, mp)
       /\ UNCHANGED <<lnk, links, conc>>

\* self.create_node(name, ty)
CreateNode(d, name, ty) ==
    LET r == create_node(Heap, d, name, ty)
    IN /\ Running
       /\ r.err # "NoCell"
       /\ SetHeapBy(r.h, d)
       /\ last' = Called("create_node", r.err, Null, Null)
       /\ UNCHANGED <<lnk, mnt, links, conc>>

\* fs.add_dynamic_symlink(path, generator), with a generator that returns genv
AddDynamicSymlink(path) ==
    LET r == add_dynamic_symlink(Heap, path)
    IN /\ Running
       /\ CanAlloc(Heap)
       /\ SetHeap(r.h)
       /\ last' = Called("add_dynamic_symlink", r.err, Null, Null)
       /\ UNCHANGED <<lnk, mnt, links, conc>>

\* what the generators return changes (they read state outside the filesystem)
GenChange(v) ==
    /\ Running
    /\ v # genv
    /\ genv' = v
    /\ last' = Called("generator", "Ok", Null, Null)
    /\ UNCHANGED <<kind, alive, children, parent, target, held, creator, out, mnt, links, conc>>

\* self.readlink(path, buf) with the buffer the caller passes
ReadlinkInto(d, path, buf) ==
    LET r == readlink(Heap, d, path)
        rr == symlink_readlink(Heap, r.node, buf)
    IN /\ Running
       /\ last' = Called("readlink", r.err, r.node, Null)
       /\ out' = IF r.err = "Ok"
                 THEN Read(r.node, SubSeq(rr.buf, 1, rr.count), rr.count, rr.buf, 0, NoValue)
                 ELSE NoOut
       /\ UNCHANGED <<kind, alive, children, parent, target, held, creator, genv, mnt, links, conc>>

\* node.target() on a symlink node
Target(n) ==
    /\ Running
    /\ n \in alive /\ kind[n] = "SymLink"
    /\ last' = Called("target", "Ok", n, Null)
    /\ out' = Read(n, symlink_target(Heap, n), 0, << >>, 0, PrevOf(n))
    /\ UNCHANGED <<kind, alive, children, parent, target, held, creator, genv, mnt, links, conc>>

\* node.get_attr() on a symlink node
GetAttr(n) ==
    /\ Running
    /\ n \in alive /\ kind[n] = "SymLink"
    /\ last' = Called("get_attr", "Ok", n, Null)
    /\ out' = Read(n, NoValue, 0, << >>, symlink_get_attr(Heap, n).size, NoValue)
    /\ UNCHANGED <<kind, alive, children, parent, target, held, creator, genv, mnt, links, conc>>

\* the live directories: a caller reaches each by a lookup from the root (or
\* holds it), calls it and drops the Arc
LiveDirs == {d \in alive : kind[d] = "Dir"}

\* Spec: the path-level calls (VfsNodeOps) of one caller
Next ==
    \/ \E d \in LiveDirs, path \in ActPaths, ty \in {"File", "Dir"} : Create(d, path, ty)
    \/ \E d \in LiveDirs, name \in Names, ty \in {"SymLink", "CharDevice"} : Create(d, name, ty)
    \/ \E d \in LiveDirs, path \in ActPaths : Remove(d, path)
    \/ \E d \in LiveDirs, path \in ActPaths : Symlink(d, TargetA, path)
    \/ \E d \in LiveDirs, name \in Names : Symlink(d, Empty, name)
    \/ \E d \in LiveDirs, path \in ActPaths : Readlink(d, path)
    \/ \E d \in LiveDirs, path \in ActPaths : Lookup(d, path, FALSE)

Spec == Init /\ [][Next]_vars

\* SpecNode: the node-level calls of DirNode (create_node, add_node,
\* remove_node) of one caller; add_node is given a new file or a node of the
\* tree that the caller looked up
NextNode ==
    \/ \E d \in LiveDirs, name \in Names, ty \in NodeTypes : CreateNode(d, name, ty)
    \/ \E d \in LiveDirs, name \in Names, n \in alive : AddNode(d, name, n)
    \/ \E d \in LiveDirs, name \in Names : AddNewNode(d, name, "File", Empty)
    \/ \E d \in LiveDirs, name \in Names : RemoveNode(d, name)

SpecNode == Init /\ [][NextNode]_vars

\* SpecList: a directory is filled and emptied, and listed page by page
NextList ==
    \/ \E d \in LiveDirs, name \in ListNames, ty \in NodeTypes : CreateNode(d, name, ty)
    \/ \E d \in LiveDirs, name \in ListNames : Symlink(d, TargetA, name)
    \/ \E d \in LiveDirs, name \in ListNames : RemoveNode(d, name)
    \/ \E d \in LiveDirs, start_idx \in 0..MaxStart, k \in 0..MaxSlots : ReadDir(d, start_idx, k)

SpecList == Init /\ [][NextList]_vars

\* the paths given to add_dynamic_symlink
DynPaths ==
    {Empty, NameA, NameB, <<SLASH>> \o NameA, Sep(NameA, NameB), <<SLASH>> \o Sep(NameA, NameB),
     Sep(NameA, Empty), Sep(NameA, DotName), Sep(NameB, NameA), Sep(NameA, Sep(DotName, NameB))}

\* SpecLink: symlinks with fixed and with generated targets are stored in
\* the tree and removed from it while the generators' output changes
NextLink ==
    \/ \E d \in LiveDirs, name \in Names, tgt \in Targets : Symlink(d, tgt, name)
    \/ \E d \in LiveDirs, name \in Names, tgt \in Targets : AddNewNode(d, name, "SymLink", tgt)
    \/ \E path \in DynPaths : AddDynamicSymlink(path)
    \/ \E d \in LiveDirs, name \in Names, ty \in {"File", "Dir"} : CreateNode(d, name, ty)
    \/ \E d \in LiveDirs, name \in Names \cup Specials : RemoveNode(d, name)
    \/ \E v \in GenValues : GenChange(v)

SpecLink == Init /\ [][NextLink]_vars

\* SpecRead: symlinks of both kinds are read, by readlink into buffers of
\* every length, by target() and by get_attr(), while the generators' output
\* changes
NextRead ==
    \/ \E name \in Names, tgt \in {TargetA, TargetAB} : Symlink(Root, tgt, name)
    \/ \E name \in Names : AddDynamicSymlink(name)
    \/ \E v \in GenValues : GenChange(v)
    \/ \E name \in Names, buf \in Buffers : ReadlinkInto(Root, name, buf)
    \/ \E n \in Nodes : Target(n)
    \/ \E n \in Nodes : GetAttr(n)

SpecRead == Init /\ [][NextRead]_vars

\* SpecMount: the filesystem is mounted, again and again, while callers make
\* and remove directories and keep the Arcs they looked up
NextMount ==
    \/ \E mp \in MountPoints : Mount(mp)
    \/ \E d \in Callable, name \in Names : CreateNode(d, name, "Dir")
    \/ \E d \in Callable, name \in Names : RemoveNode(d, name)
    \/ \E d \in Callable, path \in Specials \cup Names : Lookup(d, path, TRUE)
    \/ \E n \in Nodes : DropHandle(n)

SpecMount == Init /\ [][NextMount]_vars

\* ------------------------------------------------- the steps of SpecConc
\* SpecConc: threads call the same tree.  A call is cut where it takes a
\* lock: what it does between taking and releasing one lock is one step.  A
\* reader waits while a writer holds the lock, a writer while a writer or a
\* reader holds it.  Only remove_node keeps a reader lock while it holds
\* another lock; the other reader sections are single steps.

\* children.read() of d can be taken: no writer holds the lock
CanRead(d) == wlock[d] = Null
\* children.write() of d can be taken: nobody holds the lock
CanWrite(d) == wlock[d] = Null /\ \A t \in Threads : th[t].rd # d

\* history of a successful insert of node n under name in d
Won(d, name, n) ==
    /\ okCount' = [okCount EXCEPT ![d][name] = @ + 1]
    /\ winner' = [winner EXCEPT ![d][name] = IF okCount[d][name] = 0 THEN n ELSE @]

\* history of the removal of name from d
Lost(d, name) ==
    /\ okCount' = [okCount EXCEPT ![d][name] = 0]
    /\ winner' = [winner EXCEPT ![d][name] = Null]

\* create_node, first part: self.exist(name) under the reader lock, then the
\* new node is made
T_CreateNodeCheck(t, d, name, ty) ==
    /\ th[t].pc = "idle"
    /\ CanRead(d)
    /\ IF exist(Heap, d, name)
       THEN /\ th' = [th EXCEPT ![t] = Idle("AlreadyExists")]
            /\ UNCHANGED <<kind, alive, children, parent, target, held, creator>>
       ELSE IF ty \in {"File", "Dir"}
       THEN /\ CanAlloc(Heap)
            /\ SetHeapBy(Alloc(Heap, ty, IF ty = "Dir" THEN d ELSE Null, Empty), d)
            /\ th' = [th EXCEPT ![t] = InCall("create_insert", d, name, NewId(Heap))]
       ELSE /\ th' = [th EXCEPT ![t] =
                        Idle(IF ty = "SymLink" THEN "InvalidInput" ELSE "Unsupported")]
            /\ UNCHANGED <<kind, alive, children, parent, target, held, creator>>
    /\ UNCHANGED <<lnk, mnt, last, links, wlock, okCount, winner>>

\* create_node, second part: self.children.write().insert(name, node)
T_CreateNodeInsert(t) ==
    /\ th[t].pc = "create_insert"
    /\ CanWrite(th[t].dir)
    /\ SetHeap(MapInsert(Heap, th[t].dir, th[t].name, th[t].node))
    /\ Won(th[t].dir, th[t].name, th[t].node)
    /\ th' = [th EXCEPT ![t] = Idle("Ok")]
    /\ UNCHANGED <<lnk, mnt, last, links, wlock>>

\* add_node(name, Arc::new(FileNode::new())): one writer-lock section
T_AddNode(t, d, name) ==
    LET r == add_node(Alloc(Heap, "File", Null, Empty), d, name, NewId(Heap))
    IN /\ th[t].pc = "idle"
       /\ CanWrite(d)
       /\ CanAlloc(Heap)
       /\ IF r.err = "Ok"
          THEN SetHeap(r.h) /\ Won(d, name, NewId(Heap))
          ELSE UNCHANGED <<kind, alive, children, parent, target, held, creator, okCount, winner>>
       /\ th' = [th EXCEPT ![t] = Idle(r.err)]
       /\ UNCHANGED <<lnk, mnt, last, links, wlock>>

\* create_symlink_node(name, target): the node is made, then add_node
T_CreateSymlinkNode(t, d, name) ==
    LET r == create_symlink_node(Heap, d, name, TargetA)
    IN /\ th[t].pc = "idle"
       /\ CanWrite(d)
       /\ CanAlloc(Heap)
       /\ IF r.err = "Ok"
          THEN SetHeap(r.h) /\ Won(d, name, NewId(Heap))
          ELSE UNCHANGED <<kind, alive, children, parent, target, held, creator, okCount, winner>>
       /\ th' = [th EXCEPT ![t] = Idle(r.err)]
       /\ UNCHANGED <<lnk, mnt, last, links, wlock>>

\* remove_node, first part: the writer lock of self is taken and the name
\* looked up; a node that is no directory is removed in the same section
T_RemoveNodeLock(t, d, name) ==
    /\ th[t].pc = "idle"
    /\ CanWrite(d)
    /\ IF ~exist(Heap, d, name)
       THEN /\ th' = [th EXCEPT ![t] = Idle("NotFound")]
            /\ UNCHANGED <<kind, alive, children, parent, target, held, creator, wlock, okCount, winner>>
       ELSE IF kind[children[d][name]] = "Dir"
       THEN /\ wlock' = [wlock EXCEPT ![d] = t]
            /\ th' = [th EXCEPT ![t] = InCall("remove_check", d, name, children[d][name])]
            /\ UNCHANGED <<kind, alive, children, parent, target, held, creator, okCount, winner>>
       ELSE /\ SetHeap(Collect([Heap EXCEPT !.children[d] = MapDel(@, name)]))
            /\ Lost(d, name)
            /\ th' = [th EXCEPT ![t] = Idle("Ok")]
            /\ UNCHANGED wlock
    /\ UNCHANGED <<lnk, mnt, last, links>>

\* remove_node, second part: dir.children.read() of the directory found,
\* taken with the writer lock of self held
T_RemoveNodeRead(t) ==
    /\ th[t].pc = "remove_check"
    /\ CanRead(th[t].node)
    /\ th' = [th EXCEPT ![t].pc = "remove_read", ![t].rd = th[t].node]
    /\ UNCHANGED <<kind, alive, children, parent, target, held, creator, lnk, mnt, last,
                   links, wlock, okCount, winner>>

\* remove_node, third part: is_empty() under that reader lock, which is
\* released with the answer
T_RemoveNodeCheck(t) ==
    /\ th[t].pc = "remove_read"
    /\ IF DOMAIN children[th[t].node] # {}
       THEN /\ th' = [th EXCEPT ![t] = Idle("DirectoryNotEmpty")]
            /\ wlock' = [wlock EXCEPT ![th[t].dir] = Null]
       ELSE /\ th' = [th EXCEPT ![t].pc = "remove_del", ![t].rd = Null]
            /\ UNCHANGED wlock
    /\ UNCHANGED <<kind, alive, children, parent, target, held, creator, lnk, mnt, last,
                   links, okCount, winner>>

\* remove_node, last part: children.remove(name), and the writer lock of
\* self is released
T_RemoveNodeDel(t) ==
    /\ th[t].pc = "remove_del"
    /\ SetHeap(Collect([Heap EXCEPT !.children[th[t].dir] = MapDel(@, th[t].name)]))
    /\ Lost(th[t].dir, th[t].name)
    /\ wlock' = [wlock EXCEPT ![th[t].dir] = Null]
    /\ th' = [th EXCEPT ![t] = Idle("Ok")]
    /\ UNCHANGED <<lnk, mnt, last, links>>

\* lookup(name) of one name: traverse_path under the reader lock; the thread
\* keeps the Arc it gets
T_Lookup(t, d, name) ==
    LET r == traverse_path(Heap, d, name)
    IN /\ th[t].pc = "idle"
       /\ CanRead(d)
       /\ held' = IF r.err = "Ok" THEN held \cup {r.node} ELSE held
       /\ th' = [th EXCEPT ![t] = Idle(r.err)]
       /\ UNCHANGED <<kind, alive, children, parent, target, creator, lnk, mnt, last, links,
                      wlock, okCount, winner>>

NextConc ==
    \/ \E t \in Threads, d \in Callable, name \in Names, ty \in NodeTypes :
          T_CreateNodeCheck(t, d, name, ty)
    \/ \E t \in Threads : T_CreateNodeInsert(t)
    \/ \E t \in Threads, d \in Callable, name \in Names : T_AddNode(t, d, name)
    \/ \E t \in Threads, d \in Callable, name \in Names : T_CreateSymlinkNode(t, d, name)
    \/ \E t \in Threads, d \in Callable, name \in Names : T_RemoveNodeLock(t, d, name)
    \/ \E t \in Threads : T_RemoveNodeRead(t)
    \/ \E t \in Threads : T_RemoveNodeCheck(t)
    \/ \E t \in Threads : T_RemoveNodeDel(t)
    \/ \E t \in Threads, d \in Callable, name \in Names : T_Lookup(t, d, name)

SpecConc == Init /\ [][NextConc]_vars

\* ================================================================= claims

\* C1 (SpecNode).  Uniqueness: while name n is stored in directory D (some
\* create_node or add_node for it succeeded and it was not removed since),
\* every create_node and every add_node for n in D returns AlreadyExists and
\* leaves the heap, so also the node stored under n, as it was.
C1_Uniqueness ==
    \A d \in LiveDirs : \A n \in DOMAIN children[d] :
        /\ \A ty \in NodeTypes :
              /\ create_node(Heap, d, n, ty).err = "AlreadyExists"
              /\ create_node(Heap, d, n, ty).h = Heap
        /\ \A x \in alive :
              /\ add_node(Heap, d, n, x).err = "AlreadyExists"
              /\ add_node(Heap, d, n, x).h = Heap
        /\ CanAlloc(Heap) =>
              add_node(Alloc(Heap, "File", Null, Empty), d, n, NewId(Heap)).err
                  = "AlreadyExists"

\* a second create_node for a stored name was made and refused
C1_Witness ==
    /\ last.op = "create_node"
    /\ last.err = "AlreadyExists"
    /\ \E d \in LiveDirs : DOMAIN children[d] # {}

\* C3 (SpecNode).  Non-empty guard: for a directory D stored under name n in
\* its parent P (the directory its parent reference resolves to), remove of n
\* from P returns DirectoryNotEmpty and changes nothing while D has a child,
\* and returns Ok and takes n out of P's map when D has none; remove of a
\* name that P does not store returns NotFound.
C3_NonEmptyGuard ==
    \A p \in LiveDirs :
        /\ \A n \in DOMAIN children[p] :
              LET d == children[p][n]
              IN (kind[d] = "Dir" /\ parent_of(Heap, d) = p) =>
                    IF DOMAIN children[d] # {}
                    THEN /\ remove_node(Heap, p, n).err = "DirectoryNotEmpty"
                         /\ remove_node(Heap, p, n).h = Heap
                         /\ remove(Heap, p, n).err = "DirectoryNotEmpty"
                    ELSE /\ remove_node(Heap, p, n).err = "Ok"
                         /\ n \notin DOMAIN remove_node(Heap, p, n).h.children[p]
                         /\ remove(Heap, p, n).err = "Ok"
        /\ \A n \in Names \ DOMAIN children[p] :
              /\ remove_node(Heap, p, n).err = "NotFound"
              /\ remove_node(Heap, p, n).h = Heap

\* remove_node was refused for a directory that has a child
C3_Witness ==
    /\ last.op = "remove_node"
    /\ last.err = "DirectoryNotEmpty"
    /\ \E p \in LiveDirs : \E n \in DOMAIN children[p] :
          /\ kind[children[p][n]] = "Dir"
          /\ parent_of(Heap, children[p][n]) = p
          /\ DOMAIN children[children[p][n]] # {}

\* C2 (SpecConc).  Calls for the same name of the same directory are
\* serialized: of the create_node / add_node / create_symlink_node calls made
\* for a name since it was last absent, at most one returns Ok, and the node
\* stored under the name is the one that call inserted.
C2_OneInsertWins ==
    \A d \in Nodes : \A n \in Names :
        /\ okCount[d][n] <= 1
        /\ (okCount[d][n] >= 1 /\ n \in DOMAIN children[d]) =>
              children[d][n] = winner[d][n]

\* C4 (SpecConc).  A directory has no child at the instant it is taken out
\* of the child map of a directory.
C4_RemovedDirIsEmpty ==
    [][\A p \in Nodes : \A n \in DOMAIN children[p] :
          (p \in alive' /\ n \notin DOMAIN children'[p] /\ kind[children[p][n]] = "Dir")
             => DOMAIN children[children[p][n]] = {}]_vars

\* the conceptual sequence of read_dir: ".", "..", then the children by name
Listing(d) == <<DotName, DotDotName>> \o SortedKeys(DOMAIN children[d])

\* the names in the slots that a read_dir result reports as filled
Filled(r) == [i \in 1..r.count |-> r.dirents[i].name]

Blank(k) == [i \in 1..k |-> Stale]

\* C5 (SpecList).  Paginated listing: with n children, read_dir(start_idx,
\* k slots) returns min(k, max(0, n + 2 - start_idx)) and fills slot i with
\* element start_idx + i of [".", "..", children in ascending name order], so
\* that from 0 with n + 2 slots it yields that sequence, and two consecutive
\* pages hold what one page of their joint size holds.
C5_PaginatedListing ==
    \A d \in LiveDirs : \A start_idx \in 0..MaxStart : \A k \in 0..MaxSlots :
        LET n == Cardinality(DOMAIN children[d])
            r == read_dir(Heap, d, start_idx, Blank(k))
        IN /\ r.count = Min(k, Max(0, n + 2 - start_idx))
           /\ \A i \in 0..(r.count - 1) :
                 r.dirents[i + 1].name = Listing(d)[start_idx + i + 1]
           /\ (start_idx = 0 /\ k >= n + 2) => Filled(r) = Listing(d)
           /\ \A k2 \in 0..(MaxSlots - k) :
                 Filled(r) \o Filled(read_dir(Heap, d, start_idx + r.count, Blank(k2)))
                    = Filled(read_dir(Heap, d, start_idx, Blank(k + k2)))

\* a directory with two children was listed from a start index past "."
\* into a buffer that the remaining entries did not fill
C5_Witness ==
    /\ last.op = "read_dir"
    /\ last.node = 2
    /\ \E d \in LiveDirs :
          /\ Cardinality(DOMAIN children[d]) = 2
          /\ read_dir(Heap, d, 2, Blank(3)).count = 2
          /\ Filled(read_dir(Heap, d, 0, Blank(4))) = Listing(d)

\* ---------------------------------------------------------------- paths
Ok(h, n) == Res("Ok", h, n)

\* the node stored at a/b below directory d, Null when there is none
NodeAt(d, a, b) ==
    IF a \in DOMAIN children[d] /\ kind[children[d][a]] = "Dir"
          /\ b \in DOMAIN children[children[d][a]]
    THEN children[children[d][a]][b] ELSE Null

PathDot(a, b) == Sep(a, Sep(DotName, b))
PathPlain(a, b) == Sep(a, b)
PathSlashes(a, b) == <<SLASH>> \o Sep(a, b) \o <<SLASH>>

RECURSIVE Segments(_)
Segments(path) ==
    IF find(path) = 0 THEN <<path>>
    ELSE <<SubSeq(path, 1, find(path) - 1)>>
            \o Segments(SubSeq(path, find(path) + 1, Len(path)))

FinalSegment(path) == Segments(path)[Len(Segments(path))]
EarlierSegments(path) == SubSeq(Segments(path), 1, Len(Segments(path)) - 1)

\* the directory of this filesystem that the segments lead to from directory
\* d, Null when one of them does not resolve to such a directory
RECURSIVE Walk(_, _)
Walk(d, segs) ==
    IF segs = << >> THEN d
    ELSE LET seg == Head(segs)
             nxt == IF seg = Empty \/ seg = DotName THEN d
                    ELSE IF seg = DotDotName
                         THEN IF parent[d] \in alive THEN parent[d] ELSE Null
                    ELSE IF seg \in DOMAIN children[d] THEN children[d][seg]
                    ELSE Null
         IN IF nxt = Null \/ kind[nxt] # "Dir" THEN Null ELSE Walk(nxt, Tail(segs))

SpecialPaths == {path \in CheckPaths : FinalSegment(path) \in Specials}

\* C10 as stated (Spec).  Special path names: when the final path segment is
\* "", "." or "..", create returns success and changes no child map, while
\* remove, symlink and readlink return InvalidInput and change no child map.
C10_SpecialNamesAnyPrefix ==
    \A d \in LiveDirs : \A path \in SpecialPaths :
        /\ \A ty \in NodeTypes : create(Heap, d, path, ty) = Ok(Heap, Null)
        /\ remove(Heap, d, path) = Res("InvalidInput", Heap, Null)
        /\ symlink(Heap, d, TargetA, path) = Res("InvalidInput", Heap, Null)
        /\ readlink(Heap, d, path) = Res("InvalidInput", Heap, Null)

\* C10 amended (Spec).  When the final path segment is "", "." or ".." and
\* every earlier segment resolves to a directory of this filesystem, create
\* returns success and changes no child map, while remove, symlink and
\* readlink return InvalidInput and change no child map.
C10_SpecialNames ==
    \A d \in LiveDirs : \A path \in SpecialPaths :
        Walk(d, EarlierSegments(path)) # Null =>
            /\ \A ty \in NodeTypes : create(Heap, d, path, ty) = Ok(Heap, Null)
            /\ remove(Heap, d, path) = Res("InvalidInput", Heap, Null)
            /\ symlink(Heap, d, TargetA, path) = Res("InvalidInput", Heap, Null)
            /\ readlink(Heap, d, path) = Res("InvalidInput", Heap, Null)

\* a remove was refused for its final segment while the root has a
\* subdirectory that is not empty, so that "a/.." and "a/." lead somewhere
C10_Witness ==
    /\ last.op = "remove"
    /\ last.err = "InvalidInput"
    /\ \E a \in Names :
          /\ Walk(Root, <<a>>) # Null
          /\ DOMAIN children[Walk(Root, <<a>>)] # {}
          /\ remove(Heap, Root, Sep(a, DotDotName)).err = "InvalidInput"

\* ----------------------------------------------------------------- mount
\* C7 (SpecMount).  Parent round-trip: for every directory C that create made
\* under directory D, lookup("..") on C returns D and lookup("") and
\* lookup(".") on C return C; lookup("..") returns NotFound exactly when the
\* parent reference does not resolve: D has been dropped by every owner, or,
\* for the root, the filesystem is not mounted under a parent.
C7_ParentRoundTrip ==
    /\ \A C \in LiveDirs :
          /\ lookup(Heap, C, Empty) = Ok(Heap, C)
          /\ lookup(Heap, C, DotName) = Ok(Heap, C)
          /\ creator[C] # Null =>
                /\ creator[C] \in alive => lookup(Heap, C, DotDotName) = Ok(Heap, creator[C])
                /\ (lookup(Heap, C, DotDotName).err = "NotFound") <=> (creator[C] \notin alive)
    /\ (lookup(Heap, Root, DotDotName).err = "NotFound") <=> (lastQ = Null)

\* a caller holds a directory whose creating directory has been removed and
\* dropped, and a lookup has returned NotFound
C7_Witness ==
    /\ last.op = "lookup"
    /\ last.err = "NotFound"
    /\ \E C \in held :
          /\ kind[C] = "Dir"
          /\ creator[C] \in Nodes \ {Root}
          /\ creator[C] \notin alive
          /\ lookup(Heap, C, DotDotName).err = "NotFound"
          /\ lookup(Heap, C, DotName).node = C

\* C8 as stated (SpecMount).  Mount escape: after any mount call whose mount
\* point has parent Q, lookup("..") on the root resolves to Q, the parent of
\* the mount point passed to that call, regardless of earlier mount calls.
C8_MountEscapeLatest ==
    lastQ # Null => lookup(Heap, Root, DotDotName) = Ok(Heap, lastQ)

\* C8 amended (SpecMount).  After any mount call whose mount point has a
\* parent, lookup("..") on the root resolves to the parent of the mount point
\* of the first mount call whose mount point had a parent.
C8_MountEscapeFirst ==
    lastQ # Null => lookup(Heap, Root, DotDotName) = Ok(Heap, firstQ)

\* a second mount under a different parent has been made
C8_Witness ==
    /\ last.op = "mount"
    /\ lastQ # Null
    /\ firstQ # lastQ
    /\ lookup(Heap, Root, DotDotName).node = firstQ

\* C9 (SpecMount).  Mount is at-most-once by effect: the stored external
\* parent is unset until the first mount whose mount point has a parent, is
\* set by that call to that parent and never changes afterwards; the root's
\* parent reference is cleared when the latest mount point had no parent and
\* is the stored first parent otherwise.
C9_MountOnce ==
    /\ fsParent = firstQ
    /\ lastQ = Null => parent[Root] = Null
    /\ lastQ # Null => parent[Root] = fsParent

\* the slot is set and a later mount at a point without parent has cleared
\* the root's parent reference
C9_Witness ==
    /\ last.op = "mount"
    /\ fsParent # Null
    /\ lastQ = Null
    /\ parent[Root] = Null

\* ----------------------------------------------------------------- symlinks
SymLinks == {n \in alive : kind[n] = "SymLink"}
DynamicLinks == {n \in SymLinks : target[n] = DynamicGen}

\* C11 (SpecRead).  Symlink read: readlink on a symlink with current target t
\* and a buffer of length L returns min(len(t), L), writes the first
\* min(len(t), L) bytes of t to the start of the buffer, leaves the rest of
\* the buffer unchanged, and never returns an error on truncation; readlink
\* of a name that stores a symlink reaches that symlink.
C11_SymlinkRead ==
    /\ \A n \in SymLinks : \A buf \in Buffers :
          LET t == symlink_target(Heap, n)
              r == symlink_readlink(Heap, n, buf)
              m == Min(Len(t), Len(buf))
          IN /\ r.count = m
             /\ Len(r.buf) = Len(buf)
             /\ SubSeq(r.buf, 1, m) = SubSeq(t, 1, m)
             /\ SubSeq(r.buf, m + 1, Len(buf)) = SubSeq(buf, m + 1, Len(buf))
    /\ \A name \in DOMAIN children[Root] :
          children[Root][name] \in SymLinks =>
              readlink(Heap, Root, name) = Res("Ok", Heap, children[Root][name])
    /\ (last.op = "readlink" /\ last.node \in SymLinks) =>
          /\ last.err = "Ok"
          /\ out.count = Min(Len(symlink_target(Heap, last.node)), Len(out.buf))
          /\ out.val = SubSeq(symlink_target(Heap, last.node), 1, out.count)
          /\ \A i \in (out.count + 1)..Len(out.buf) : out.buf[i] = Blot

\* symlink("/a/b", name) was followed by a readlink into a 5-byte buffer,
\* which returned 4 with "/a/b" copied and the last byte left as it was
C11_Witness ==
    /\ last.op = "readlink"
    /\ last.err = "Ok"
    /\ target[last.node] = TargetAB
    /\ out.count = 4
    /\ out.buf = TargetAB \o <<Blot>>

\* C12 (SpecRead).  Dynamic symlink freshness: every target(), readlink and
\* get_attr on a dynamic symlink reports the value its generator returns at
\* that call (size = that value's length), so that after the generator's
\* output changed a read reports the new value, never an earlier one.
C12_DynamicFresh ==
    /\ \A n \in DynamicLinks :
          /\ symlink_target(Heap, n) = genv
          /\ symlink_get_attr(Heap, n).size = Len(genv)
          /\ \A buf \in Buffers :
                SubSeq(symlink_readlink(Heap, n, buf).buf, 1, symlink_readlink(Heap, n, buf).count)
                   = SubSeq(genv, 1, Min(Len(genv), Len(buf)))
    /\ (last.op = "target" /\ last.node \in DynamicLinks) => out.val = genv
    /\ (last.op = "get_attr" /\ last.node \in DynamicLinks) => out.size = Len(genv)
    /\ (last.op = "readlink" /\ last.node \in DynamicLinks) =>
          out.val = SubSeq(genv, 1, Min(Len(genv), Len(out.buf)))

\* target() of a dynamic symlink was called twice with a change of the
\* generator's output in between, and the second call reported the new value
C12_Witness ==
    /\ last.op = "target"
    /\ last.node \in DynamicLinks
    /\ out.prev # NoValue
    /\ out.prev # out.val
    /\ out.val = genv

\* the symlinks stored in the tree
StoredLinks == {n \in SymLinks : \E d \in LiveDirs : \E k \in DOMAIN children[d] : children[d][k] = n}

\* C13 (SpecLink).  The reported target of a symlink node is never empty: for
\* every symlink stored in the tree after any sequence of symlink, add_node
\* and add_dynamic_symlink calls, target() returns a non-empty string, and
\* symlink(target, path) with an empty target returns InvalidInput and
\* inserts nothing.
C13_TargetNeverEmpty ==
    /\ \A n \in StoredLinks : symlink_target(Heap, n) # Empty
    /\ \A d \in LiveDirs : \A path \in CheckPaths :
          symlink(Heap, d, Empty, path) = Res("InvalidInput", Heap, Null)

\* the part of a path before its last '/'
ParentPart(path) == SubSeq(path, 1, Len(path) - Len(FinalSegment(path)) - 1)

\* the directory add_dynamic_symlink is to insert into: the root when the
\* path has no '/' or nothing before its last '/', else what the part before
\* it resolves to from the root
ParentOf(path) ==
    IF Len(Segments(path)) = 1 \/ ParentPart(path) = Empty THEN Res("Ok", Heap, Root)
    ELSE lookup(Heap, Root, ParentPart(path))

\* C14 (SpecLink).  add_dynamic_symlink(path, generator) splits path at its
\* last '/', resolves the part before it from the root (the root itself if
\* that part is empty or path has no '/') and inserts a dynamic symlink under
\* the final name in that directory; it returns NotADirectory and inserts
\* nothing when the resolved parent is not a directory, AlreadyExists when
\* the name is taken, and the lookup's error when the parent path does not
\* resolve.
C14_AddDynamicSymlink ==
    CanAlloc(Heap) =>
        \A path \in DynPaths :
            LET r == add_dynamic_symlink(Heap, path)
                name == FinalSegment(path)
                dir == ParentOf(path)
            IN IF dir.err # "Ok" THEN r.err = dir.err /\ r.h = Heap
               ELSE IF kind[dir.node] # "Dir" THEN r.err = "NotADirectory" /\ r.h = Heap
               ELSE IF name \in DOMAIN children[dir.node]
                    THEN r.err = "AlreadyExists" /\ r.h = Heap
               ELSE /\ r.err = "Ok"
                    /\ r.h.children =
                          [children EXCEPT ![dir.node] = MapPut(@, name, NewId(Heap))]
                    /\ r.h.kind[NewId(Heap)] = "SymLink"
                    /\ r.h.target[NewId(Heap)] = DynamicGen
                    /\ NewId(Heap) \in r.h.alive

\* add_dynamic_symlink with a path of two segments has inserted a dynamic
\* symlink into the directory that the first segment names
C14_Witness ==
    /\ last.op = "add_dynamic_symlink"
    /\ last.err = "Ok"
    /\ \E a \in DOMAIN children[Root] :
          /\ kind[children[Root][a]] = "Dir"
          /\ \E k \in DOMAIN children[children[Root][a]] :
                children[children[Root][a]][k] \in DynamicLinks

\* C17 (SpecLink).  After any sequence of create, add_node, symlink,
\* add_dynamic_symlink and remove calls no directory's child map contains
\* the key "." or "..", and every key is a non-empty string without '/'.
C17_NoSpecialKeys ==
    \A d \in LiveDirs : \A k \in DOMAIN children[d] :
        /\ k # DotName
        /\ k # DotDotName
        /\ k # Empty
        /\ \A i \in 1..Len(k) : k[i] # SLASH

\* ------------------------------------------------------------------ errors
Errors ==
    {"NotFound", "AlreadyExists", "DirectoryNotEmpty", "InvalidInput", "Unsupported",
     "NotADirectory"}

\* a call that returned an error left every child map as it was
Frame(r) == r.err \in Errors => r.h.children = children

\* every create, add_node, symlink, remove and add_dynamic_symlink call that
\* can be made now and returns an error leaves every child map as it is
FrameOfCalls ==
    /\ \A d \in LiveDirs : \A path \in CheckPaths :
          /\ \A ty \in NodeTypes : Frame(create(Heap, d, path, ty))
          /\ Frame(remove(Heap, d, path))
          /\ \A tgt \in Targets : Frame(symlink(Heap, d, tgt, path))
    /\ \A d \in LiveDirs : \A name \in Names \cup Specials : \A n \in alive :
          Frame(add_node(Heap, d, name, n))
    /\ CanAlloc(Heap) => \A path \in DynPaths : Frame(add_dynamic_symlink(Heap, path))

\* C19 as stated (Spec).  State unchanged on error: every create, add_node,
\* symlink, remove or add_dynamic_symlink call that returns an error leaves
\* the child map of every directory as it was before the call, also when the
\* descent of a multi-segment path fails; create_node with type SymLink
\* returns InvalidInput and with any type other than File, Dir and SymLink
\* returns Unsupported, both without inserting.
C19_UnchangedOnErrorAnyName ==
    /\ FrameOfCalls
    /\ \A d \in LiveDirs : \A name \in Names \cup Specials :
          /\ create_node(Heap, d, name, "SymLink") = Res("InvalidInput", Heap, Null)
          /\ create_node(Heap, d, name, "CharDevice") = Res("Unsupported", Heap, Null)

\* C19 amended (Spec).  As stated, except that create_node returns
\* InvalidInput for type SymLink and Unsupported for a type other than File,
\* Dir and SymLink when the name is not stored in the directory; for a
\* stored name it returns AlreadyExists, whatever the type; nothing is
\* inserted in either case.
C19_UnchangedOnError ==
    /\ FrameOfCalls
    /\ \A d \in LiveDirs : \A name \in Names \cup Specials :
          IF name \in DOMAIN children[d]
          THEN \A ty \in NodeTypes :
                  create_node(Heap, d, name, ty) = Res("AlreadyExists", Heap, Null)
          ELSE /\ create_node(Heap, d, name, "SymLink") = Res("InvalidInput", Heap, Null)
               /\ create_node(Heap, d, name, "CharDevice") = Res("Unsupported", Heap, Null)

\* a create whose descent met a file has returned NotADirectory
C19_Witness ==
    /\ last.op = "create"
    /\ last.err = "NotADirectory"
    /\ \E a \in DOMAIN children[Root] :
          /\ kind[children[Root][a]] = "File"
          /\ create(Heap, Root, Sep(a, NameB), "File").err = "NotADirectory"

\* ------------------------------------------------------------------- locks
\* C15 (SpecNode).  Deadlock freedom: for any tree reachable through the
\* public operations (nodes inserted with add_node included) every call
\* returns; no reachable state has a call waiting forever for a directory
\* lock, held by another call or by itself.
C15_EveryCallReturns == last.err # "Hang"

\* the directories whose children lock thread t holds
LocksHeld(t) == {d \in Nodes : wlock[d] = t \/ th[t].rd = d}

\* C16 (SpecConc).  Locking discipline: no call ever holds the children lock
\* of two different directories at the same time, and a mutating call holds
\* the writer lock of the directory it mutates only.
C16_OneLockAtATime ==
    \A t \in Threads :
        /\ Cardinality(LocksHeld(t)) <= 1
        /\ \A d \in Nodes : wlock[d] = t => th[t].dir = d

\* the directories whose child map stores node n
Holders(n) == {d \in LiveDirs : \E k \in DOMAIN children[d] : children[d][k] = n}

\* C18 (SpecMount).  Parent back-reference: for every directory N (not the
\* root) whose parent reference resolves to a node P, P is the unique
\* directory whose child map contains N; the parent reference of the root is
\* absent while the filesystem is not mounted under a parent; the parent
\* reference of a directory that is not the root is the one it got when it
\* was created.
C18_ParentBackReference ==
    /\ \A N \in LiveDirs \ {Root} :
          Resolves(Heap, parent[N]) => Holders(N) = {parent[N]}
    /\ lastQ = Null => parent[Root] = Null
    /\ \A N \in LiveDirs \ {Root} : creator[N] # Null => parent[N] = creator[N]

====
